---- MODULE Spec2Model ----
(***************************************************************************)
(* Model of prett6/project.py: a document root (AbstractProject) that owns *)
(* a backing dictionary, items (AbstractProjectItem) that delegate their   *)
(* value to the root under their name, the change notification fan-out,    *)
(* load/save of the dictionary as JSON text, and the Enum lookup.          *)
(*                                                                         *)
(* Python values are tagged pairs <<tag, payload>> so that a str, an int,  *)
(* None, a list and a dict never compare equal to one another.  A dict is  *)
(* its contents together with its keys in insertion order.                 *)
(***************************************************************************)
EXTENDS Integers, Sequences, FiniteSets, TLC

(* ---------------------------------------------------------------------- *)
(* Bounds                                                                  *)
(* ---------------------------------------------------------------------- *)
MaxItems == 2
\* the clock stops after this many ticks
MaxClock == 2
\* items attached to a root that reads and writes its file
MaxListeners == 1

(* ---------------------------------------------------------------------- *)
(* Python values                                                           *)
(* ---------------------------------------------------------------------- *)
None == <<"none", 0>>
Str(s) == <<"str", s>>
Num(n) == <<"num", n>>
List(q) == <<"list", q>>
Dict(f) == <<"dict", f>>

IsDict(v) == v[1] = "dict"

EmptyDict == [k \in {} |-> None]

\* a dict object: f, its contents, and ks, its keys in insertion order
OD(f, ks) == [f |-> f, ks |-> ks]

\* {} and {name: v}
EmptyOD == OD(EmptyDict, <<>>)
Single(name, v) == OD(name :> v, <<name>>)

\* name of an item whose name was never assigned: _create(str) yields ''
NoName == ""

\* attribute names under which items are bound on the root
AttrNames == {"k", "a"}

\* every key the backing dictionary can hold in this model
Keys == AttrNames \cup {NoName}

\* raw values written through set_property / set_value of an item
Vals == {Str("v"), Num(1)}

\* dictionaries handed to root.set_value
ArgDicts == {EmptyOD, Single("k", Str("v")), Single("a", Num(1)),
             OD("a" :> List(<<Num(1), Str("v")>>) @@ "k" :> Str("w"), <<"a", "k">>),
             Single("a", Dict(Single("k", None)))}

\* sentinel arguments of load(check_key, check_value)
CheckKeys == {"k", "a"}
CheckValues == {"v", "w"}

(* ---------------------------------------------------------------------- *)
(* dict primitives                                                         *)
(* ---------------------------------------------------------------------- *)
\* dict.get(name): the entry, None when the key is absent
DictGet(d, name) == IF name \in DOMAIN d.f THEN d.f[name] ELSE None

\* dict.update(other): upsert every key of other; a key that is new is
\* appended, in the order other holds it, a key already there keeps its place
DictUpdate(d, other) ==
    OD([k \in (DOMAIN d.f) \cup (DOMAIN other.f) |-> IF k \in DOMAIN other.f THEN other.f[k] ELSE d.f[k]],
       d.ks \o SelectSeq(other.ks, LAMBDA k : k \notin DOMAIN d.f))

\* a clear() that was forgotten: the old keys stay
DictClear_kept(d) == d

\* dict.clear()
DictClear(d) == EmptyOD

(* ---------------------------------------------------------------------- *)
(* enum.Enum subclasses                                                    *)
(* ---------------------------------------------------------------------- *)
\* a class body: its (name, associated string) pairs in definition order
EnumDefs == { <<>>,
              << <<"A", "x">> >>,
              << <<"A", "x">>, <<"B", "y">> >>,
              << <<"A", "x">>, <<"B", "y">>, <<"C", "x">> >>,
              << <<"A", "y">>, <<"B", "y">>, <<"C", "x">> >> }

\* raw values an enum item may hold, and defaults a caller may pass
RawTexts == {Str("x"), Str("y"), Str("z"), Str("")}
Defaults == {None, Str("d"), <<"member", "B">>}

\* the members a caller may hand to EnumProperty.set_value
Members == { <<"A", "x">>, <<"B", "y">>, <<"C", "x">> }

Member(name) == <<"member", name>>

\* iterating an Enum class: the members in definition order; a name whose
\* value repeats an earlier one is an alias of that member and is skipped
RECURSIVE EnumIter(_, _)
EnumIter(def, seen) ==
    IF def = <<>> THEN <<>>
    ELSE IF Head(def)[2] \in seen THEN EnumIter(Tail(def), seen)
    ELSE <<Head(def)>> \o EnumIter(Tail(def), seen \cup {Head(def)[2]})

\* the for/else loop of get_key_by_value over the members not yet visited
RECURSIVE ScanMembers(_, _, _)
ScanMembers(ms, text, default_value) ==
    IF ms = <<>> THEN default_value
    ELSE IF Str(Head(ms)[2]) = text THEN Member(Head(ms)[1])
    ELSE ScanMembers(Tail(ms), text, default_value)

\* a lookup that raises on an unknown string instead of falling back
get_key_by_value_strict(def, text, default_value) ==
    ScanMembers(EnumIter(def, {}), text, <<"raise", "ValueError">>)

\* Enum.get_key_by_value(value, default_value)
get_key_by_value(def, text, default_value) == ScanMembers(EnumIter(def, {}), text, default_value)

\* Enum.get_values_list()
RECURSIVE ValuesOf(_)
ValuesOf(ms) == IF ms = <<>> THEN <<>> ELSE <<Head(ms)[2]>> \o ValuesOf(Tail(ms))

get_values_list(def) == ValuesOf(EnumIter(def, {}))

\* member.value: the associated string of a member (name, string)
MemberValue(m) == Str(m[2])

(* ---------------------------------------------------------------------- *)
(* json.dump / json.load as a token text                                   *)
(* ---------------------------------------------------------------------- *)
Tok(kind, p) == <<kind, p>>
LBrace == Tok("{", 0)
RBrace == Tok("}", 0)
LBrack == Tok("[", 0)
RBrack == Tok("]", 0)
Comma == Tok(",", 0)
Colon == Tok(":", 0)

\* a dict is written member by member in the insertion order of its keys
RECURSIVE JsonDump(_), JsonDumpElems(_), JsonDumpMembers(_, _)
\* a dump that writes every number as a quoted string
JsonDump_quoted(v) ==
    CASE v[1] = "none" -> <<Tok("null", 0)>>
      [] v[1] = "str"  -> <<Tok("string", v[2])>>
      [] v[1] = "num"  -> <<Tok("string", "1")>>
      [] v[1] = "list" -> <<LBrack>> \o JsonDumpElems(v[2]) \o <<RBrack>>
      [] v[1] = "dict" -> <<LBrace>> \o JsonDumpMembers(v[2].f, v[2].ks) \o <<RBrace>>

JsonDump(v) ==
    CASE v[1] = "none" -> <<Tok("null", 0)>>
      [] v[1] = "str"  -> <<Tok("string", v[2])>>
      [] v[1] = "num"  -> <<Tok("number", v[2])>>
      [] v[1] = "list" -> <<LBrack>> \o JsonDumpElems(v[2]) \o <<RBrack>>
      [] v[1] = "dict" -> <<LBrace>> \o JsonDumpMembers(v[2].f, v[2].ks) \o <<RBrace>>

JsonDumpElems(q) ==
    IF q = <<>> THEN <<>>
    ELSE JsonDump(Head(q)) \o (IF Len(q) > 1 THEN <<Comma>> ELSE <<>>) \o JsonDumpElems(Tail(q))

JsonDumpMembers(f, ks) ==
    IF ks = <<>> THEN <<>>
    ELSE <<Tok("string", Head(ks)), Colon>> \o JsonDump(f[Head(ks)])
         \o (IF Len(ks) > 1 THEN <<Comma>> ELSE <<>>) \o JsonDumpMembers(f, Tail(ks))

\* a parse result: ok, the value, and the tokens not yet consumed
PFail == [ok |-> FALSE, val |-> None, rest |-> <<>>]
POk(v, r) == [ok |-> TRUE, val |-> v, rest |-> r]

RECURSIVE ParseValue(_), ParseElems(_, _), ParseMembers(_, _)
ParseValue(t) ==
    IF t = <<>> THEN PFail
    ELSE LET h == Head(t) IN
         CASE h[1] = "null"   -> POk(None, Tail(t))
           [] h[1] = "string" -> POk(Str(h[2]), Tail(t))
           [] h[1] = "number" -> POk(Num(h[2]), Tail(t))
           [] h[1] = "["      ->
                IF Len(t) > 1 /\ t[2] = RBrack THEN POk(List(<<>>), Tail(Tail(t)))
                ELSE ParseElems(Tail(t), <<>>)
           [] h[1] = "{"      ->
                IF Len(t) > 1 /\ t[2] = RBrace THEN POk(Dict(EmptyOD), Tail(Tail(t)))
                ELSE ParseMembers(Tail(t), EmptyOD)
           [] OTHER -> PFail

\* elements after '[' or ',': one value, then ',' or ']'
ParseElems(t, acc) ==
    LET r == ParseValue(t) IN
    IF ~r.ok \/ r.rest = <<>> THEN PFail
    ELSE IF Head(r.rest) = RBrack THEN POk(List(Append(acc, r.val)), Tail(r.rest))
    ELSE IF Head(r.rest) = Comma THEN ParseElems(Tail(r.rest), Append(acc, r.val))
    ELSE PFail

\* members after '{' or ',': "key" ':' value, then ',' or '}'; the keys are
\* inserted in the order of the text, a repeated key keeps the last value
ParseMembers(t, acc) ==
    IF Len(t) < 3 \/ t[1][1] # "string" \/ t[2] # Colon THEN PFail
    ELSE LET key == t[1][2]
             r == ParseValue(Tail(Tail(t)))
             acc2 == DictUpdate(acc, Single(key, r.val))
         IN IF ~r.ok \/ r.rest = <<>> THEN PFail
            ELSE IF Head(r.rest) = RBrace THEN POk(Dict(acc2), Tail(r.rest))
            ELSE IF Head(r.rest) = Comma THEN ParseMembers(Tail(r.rest), acc2)
            ELSE PFail

\* json.load: the whole text must be one value; anything else is a ValueError
JsonLoad(t) ==
    LET r == ParseValue(t) IN
    IF r.ok /\ r.rest = <<>> THEN [ok |-> TRUE, val |-> r.val] ELSE [ok |-> FALSE, val |-> None]

(* ---------------------------------------------------------------------- *)
(* State                                                                   *)
(* ---------------------------------------------------------------------- *)
VARIABLES
    heap,         \* the dict objects that are alive, by address: clear() and
                  \* update() change the object at an address in place, and
                  \* everyone who holds the address sees the change
    children,     \* root.children: item ids in attachment order
    subscribers,  \* listeners connected to root.changed, in connection order
    items,        \* every item constructed so far: parent, name, self_storage, and
                  \* (history) bound, the attribute it was most recently assigned to
    file,         \* the target file: exists, and its text
    last,         \* history: the most recent call, its arguments, outcome and trace of steps
    written,      \* history: keys written through set_property since the last bulk replace
    saved,        \* history: the backing dictionary as it was when save() last wrote the file
    enum,         \* the EnumItem (0 when none), whether an Enum class was given to
                  \* it, the class, and (history) the result of the last lookup
    tp,           \* the TimePointItem (0 when none), its t_format, and the clock
    ref           \* addresses of dict objects: root, the dict self.value
                  \* denotes; held, the dict a caller got from root.get_value()
                  \* (0: none)

vars == <<heap, children, subscribers, items, file, last, written, saved, enum, ref, tp>>

ItemIds == 1..Len(items)

\* the backing dictionary: the dict object self.value denotes
Backing == heap[ref.root]

\* its contents, and its keys in insertion order
value == Backing.f
order == Backing.ks

\* dict.clear() and dict.update(other) on the object at address r
ClearAt(h, r) == [h EXCEPT ![r] = DictClear(h[r])]
UpdateAt(h, r, other) == [h EXCEPT ![r] = DictUpdate(h[r], other)]

\* the lowest address no live object has
Fresh(h) == CHOOSE a \in 1..(Cardinality(DOMAIN h) + 1) : a \notin DOMAIN h

\* a dict object with contents d made by a caller or by json.load
Alloc(h, d) == (Fresh(h) :> d) @@ h

\* the objects somebody still holds; the others are gone
Collect(h, live) == [a \in DOMAIN h \cap live |-> h[a]]

\* one step of a call: what happened, on which item, with which payload, and
\* the contents of the backing dictionary at that moment
Ev(kind, item, payload, d) == [kind |-> kind, item |-> item, payload |-> payload, dict |-> d.f]

\* pre is the contents of the backing dictionary, root its address, as they
\* were when the call began; argref is the address of the dict handed to a
\* set_value or parsed by a load (0: none)
Call(op, name, arg, item, outcome, events) ==
    [op |-> op, name |-> name, arg |-> arg, item |-> item, outcome |-> outcome,
     events |-> events, pre |-> value, root |-> ref.root, argref |-> 0]

(* ---------------------------------------------------------------------- *)
(* AbstractProjectItem.get_value and the listeners                         *)
(* ---------------------------------------------------------------------- *)
get_value(it, d) ==
    IF it.parent # "none" THEN DictGet(d, it.name) ELSE it.self_storage

\* check_change of item i: the item re-reads its own value
check_change(i, its, d) == Ev("check_change", i, get_value(its[i], d), d)

\* changed.emit(payload): every connected listener, in connection order
RECURSIVE Deliver(_, _, _)
Deliver(subs, its, d) ==
    IF subs = <<>> THEN <<>>
    ELSE <<check_change(Head(subs), its, d)>> \o Deliver(Tail(subs), its, d)

emit(payload, subs, its, d) == <<Ev("emit", 0, payload, d)>> \o Deliver(subs, its, d)

(* ---------------------------------------------------------------------- *)
(* AbstractProject                                                         *)
(* ---------------------------------------------------------------------- *)
get_property(d, name) == DictGet(d, name)

\* AbstractProject.get_value(): self._create(dict), the dict that was built
\* for this root on first use and is handed out again on every later call
create_dict(memo) == memo

\* a set_property that keeps an existing entry (setdefault instead of update)
set_property_setdefault(h, r, subs, its, name, v) ==
    LET d  == h[r]
        d1 == IF name \in DOMAIN d.f THEN d ELSE DictUpdate(d, Single(name, v))
    IN [heap |-> [h EXCEPT ![r] = d1], value |-> d1,
        events |-> <<Ev("update", 0, Dict(Single(name, v)), d1)>> \o emit(Dict(d1), subs, its, d1)]

\* a set_property that emits only when the dictionary changed
set_property_quiet(h, r, subs, its, name, v) ==
    LET d  == h[r]
        d1 == DictUpdate(d, Single(name, v))
    IN [heap |-> [h EXCEPT ![r] = d1], value |-> d1,
        events |-> <<Ev("update", 0, Dict(Single(name, v)), d1)>>
                   \o (IF d1 = d THEN <<>> ELSE emit(Dict(d1), subs, its, d1))]

\* a set_property that emits the single-key delta
set_property_delta(h, r, subs, its, name, v) ==
    LET d1 == DictUpdate(h[r], Single(name, v))
    IN [heap |-> [h EXCEPT ![r] = d1], value |-> d1,
        events |-> <<Ev("update", 0, Dict(Single(name, v)), d1)>> \o emit(Dict(Single(name, v)), subs, its, d1)]

\* a set_property that writes the value under every key of the dictionary
set_property_spread(h, r, subs, its, name, v) ==
    LET d  == h[r]
        d1 == OD([k \in DOMAIN d.f \cup {name} |-> v], DictUpdate(d, Single(name, v)).ks)
    IN [heap |-> [h EXCEPT ![r] = d1], value |-> d1,
        events |-> <<Ev("update", 0, Dict(Single(name, v)), d1)>> \o emit(Dict(d1), subs, its, d1)]

\* a set_property that leaves only the one key written in the dictionary
set_property_rebind(h, r, subs, its, name, v) ==
    LET d1 == Single(name, v)
    IN [heap |-> [h EXCEPT ![r] = d1], value |-> d1,
        events |-> <<Ev("update", 0, Dict(Single(name, v)), d1)>> \o emit(Dict(d1), subs, its, d1)]

\* set_property(name, value) on the root whose dict is at address r:
\* self.value.update({name: value}), then emit the dictionary itself
set_property(h, r, subs, its, name, v) ==
    LET b  == create_dict(r)
        h1 == UpdateAt(h, b, Single(name, v))
        d1 == h1[b]
    IN [heap |-> h1, value |-> d1,
        events |-> <<Ev("update", 0, Dict(Single(name, v)), d1)>> \o emit(Dict(d1), subs, its, d1)]

\* a set_value that emits between the clear and the update
set_value_early(h, r, a, subs, its) ==
    LET h1 == ClearAt(h, r)
        h2 == UpdateAt(h1, r, h1[a])
    IN [heap |-> h2, root |-> r, arg |-> h1[a],
        events |-> <<Ev("clear", 0, None, h1[r])>> \o emit(Dict(h1[r]), subs, its, h1[r])
                   \o <<Ev("update", 0, Dict(h1[a]), h2[r])>>]

\* a set_value that keeps the dict it is given as the backing dictionary
set_value_rebind(h, r, a, subs, its) ==
    [heap |-> h, root |-> a, arg |-> h[a],
     events |-> <<Ev("clear", 0, None, h[a]), Ev("update", 0, Dict(h[a]), h[a])>>
                \o emit(Dict(h[a]), subs, its, h[a])]

\* set_value(value) on the root whose dict is at address r, value being the
\* dict at address a: self.value.clear(), self.value.update(value), emit.
\* Every self.value is the dict at r; value is read after the clear, so when
\* a = r it is read empty.
set_value(h, r, a, subs, its) ==
    LET v  == create_dict(r)
        h1 == ClearAt(h, v)
        h2 == UpdateAt(h1, v, h1[a])
    IN [heap |-> h2, root |-> v, arg |-> h1[a],
        events |-> <<Ev("clear", 0, None, h1[v]), Ev("update", 0, Dict(h1[a]), h2[v])>>
                   \o emit(Dict(h2[v]), subs, its, h2[v])]

\* ValueModel: the assignment self.value = obj is a call of set_value(obj)
value_setter(h, r, a, subs, its) == set_value(h, r, a, subs, its)

(* ---------------------------------------------------------------------- *)
(* SaveInterface                                                           *)
(* ---------------------------------------------------------------------- *)
NoFile == [exists |-> FALSE, text |-> <<>>]

\* a load whose sentinel lookup defaults to the expected value
load_check_lenient(f, check_key, check_value) ==
    IF ~f.exists THEN [outcome |-> "FileNotFoundError", obj |-> None]
    ELSE LET r == JsonLoad(f.text) IN
         IF ~r.ok THEN [outcome |-> "ValueError", obj |-> None]
         ELSE IF ~IsDict(r.val) THEN [outcome |-> "AssertionError", obj |-> r.val]
         ELSE IF check_key \in DOMAIN r.val[2].f /\ r.val[2].f[check_key] # Str(check_value)
              THEN [outcome |-> "AssertionError", obj |-> r.val]
         ELSE [outcome |-> "ok", obj |-> r.val]

\* what load(check_key, check_value) decides before it assigns self.value
load_check(f, check_key, check_value) ==
    IF ~f.exists THEN [outcome |-> "FileNotFoundError", obj |-> None]
    ELSE LET r == JsonLoad(f.text) IN
         IF ~r.ok THEN [outcome |-> "ValueError", obj |-> None]
         ELSE IF ~IsDict(r.val) THEN [outcome |-> "AssertionError", obj |-> r.val]
         ELSE IF DictGet(r.val[2], check_key) # Str(check_value)
              THEN [outcome |-> "AssertionError", obj |-> r.val]
         ELSE [outcome |-> "ok", obj |-> r.val]

\* save(): the file is overwritten with the dump of the backing dictionary
save_file(d) == [exists |-> TRUE, text |-> JsonDump(Dict(d))]

(* ---------------------------------------------------------------------- *)
(* Initial state: a root just constructed, no item, no file                *)
(* ---------------------------------------------------------------------- *)
NoSave == [valid |-> FALSE, dict |-> EmptyDict]
NoEnum == [item |-> 0, given |-> FALSE, def |-> <<>>, result |-> None]

\* a root just constructed: its dict is the first object, nobody else holds
\* a dict
NoRef == [root |-> 1, held |-> 0]
NoHeap == 1 :> EmptyOD

\* the default of TimePointItem's t_format, and another format a caller passes
DefaultFormat == "%Y-%m-%d %H:%M:%S"
Formats == {DefaultFormat, "%H:%M"}

NoTime == [item |-> 0, fmt |-> DefaultFormat, now |-> 0]

InitCall == [op |-> "init", name |-> NoName, arg |-> None, item |-> 0, outcome |-> "ok",
             events |-> <<>>, pre |-> EmptyDict, root |-> NoRef.root, argref |-> 0]

InitRoot ==
    /\ heap = NoHeap
    /\ children = <<>>
    /\ subscribers = <<>>
    /\ items = <<>>
    /\ file = NoFile
    /\ last = InitCall
    /\ written = {}
    /\ saved = NoSave
    /\ ref = NoRef
    /\ tp = NoTime

Init == InitRoot /\ enum = NoEnum

(* ---------------------------------------------------------------------- *)
(* Operations                                                              *)
(* ---------------------------------------------------------------------- *)
\* a constructor that connects the new listener in front of the others
NewItem_front(parent) ==
    /\ Len(items) < MaxItems
    /\ LET i == Len(items) + 1 IN
       /\ items' = Append(items, [parent |-> parent, name |-> NoName, self_storage |-> None,
                                 bound |-> NoName])
       /\ children' = IF parent # "none" THEN Append(children, i) ELSE children
       /\ subscribers' = IF parent # "none" THEN <<i>> \o subscribers ELSE subscribers
       /\ last' = Call("new_item", NoName, None, i, "ok", <<>>)
    /\ UNCHANGED <<heap, file, written, saved, enum, ref, tp>>

\* AbstractProjectItem.__init__(parent)
NewItem(parent) ==
    /\ Len(items) < MaxItems
    /\ LET i == Len(items) + 1 IN
       /\ items' = Append(items, [parent |-> parent, name |-> NoName, self_storage |-> None,
                                 bound |-> NoName])
       /\ children' = IF parent # "none" THEN Append(children, i) ELSE children
       /\ subscribers' = IF parent # "none" THEN Append(subscribers, i) ELSE subscribers
       /\ last' = Call("new_item", NoName, None, i, "ok", <<>>)
    /\ UNCHANGED <<heap, file, written, saved, enum, ref, tp>>

\* the setters of AbstractProjectItem.name and .self_storage: self.assign(v)
\* keeps v as what the getter returns from then on
name_setter(it, v) == [it EXCEPT !.name = v]
self_storage_setter(it, v) == [it EXCEPT !.self_storage = v]

\* a __setattr__ that names an item only the first time it is bound
SetAttr_once(key, i) ==
    /\ i \in ItemIds
    /\ items' = [items EXCEPT ![i].name = IF @ = NoName THEN key ELSE @, ![i].bound = key]
    /\ last' = Call("setattr", key, Str(items[i].name), i, "ok",
                    <<Ev("set_name", i, Str(key), Backing), Ev("bind", i, Str(key), Backing)>>)
    /\ UNCHANGED <<heap, children, subscribers, file, written, saved, enum, ref, tp>>

\* AbstractProject.__setattr__(key, item): value.name = key, then the
\* attribute itself is bound by super().__setattr__; arg of the call record
\* is the name the item had before
SetAttr(key, i) ==
    /\ i \in ItemIds
    /\ items' = [items EXCEPT ![i] = [name_setter(@, key) EXCEPT !.bound = key]]
    /\ last' = Call("setattr", key, Str(items[i].name), i, "ok",
                    <<Ev("set_name", i, Str(key), Backing), Ev("bind", i, Str(key), Backing)>>)
    /\ UNCHANGED <<heap, children, subscribers, file, written, saved, enum, ref, tp>>

\* x.name = name, the setter of AbstractProjectItem.name called by a caller
\* and not by a container: the item is renamed, the attribute it is bound to
\* stays
ItemSetName(i, name) ==
    /\ i \in ItemIds
    /\ items' = [items EXCEPT ![i] = name_setter(@, name)]
    /\ last' = Call("set_name", name, Str(items[i].name), i, "ok",
                    <<Ev("set_name", i, Str(name), Backing)>>)
    /\ UNCHANGED <<heap, children, subscribers, file, written, saved, enum, ref, tp>>

\* x.self_storage = v, the setter of AbstractProjectItem.self_storage called
\* by a caller and not by the item: the slot is assigned, nothing is written
\* through to a parent and nobody is notified
ItemSetSelfStorage(i, v) ==
    /\ i \in ItemIds
    /\ items' = [items EXCEPT ![i] = self_storage_setter(@, v)]
    /\ last' = Call("set_self_storage", items[i].name, v, i, "ok", <<Ev("store", i, v, Backing)>>)
    /\ UNCHANGED <<heap, children, subscribers, file, written, saved, enum, ref, tp>>

\* AbstractProject.set_property(name, v)
RootSetProperty(name, v) ==
    /\ LET r == set_property(heap, ref.root, subscribers, items, name, v) IN
       /\ heap' = r.heap
       /\ last' = Call("set_property", name, v, 0, "ok", r.events)
    /\ written' = written \cup {name}
    /\ UNCHANGED <<children, subscribers, items, file, saved, enum, ref, tp>>

\* AbstractProject.set_value(arg): the caller hands over a dict of its own
\* with contents arg or (alias) the dict root.get_value() returned
RootSetValue(arg, alias) ==
    /\ LET a == IF alias THEN create_dict(ref.root) ELSE Fresh(heap)
           h == IF alias THEN heap ELSE Alloc(heap, arg)
           r == set_value(h, ref.root, a, subscribers, items) IN
       /\ heap' = Collect(r.heap, {r.root, ref.held})
       /\ ref' = [ref EXCEPT !.root = r.root]
       /\ last' = [Call(IF alias THEN "set_value_self" ELSE "set_value", NoName, Dict(r.arg), 0, "ok", r.events)
                     EXCEPT !.argref = a]
    /\ written' = {}
    /\ UNCHANGED <<children, subscribers, items, file, saved, enum, tp>>

\* a set_value that also keeps the value in the item's own slot
ItemSetValue_local(i, v) ==
    /\ i \in ItemIds
    /\ LET its == [items EXCEPT ![i].self_storage = v] IN
       IF items[i].parent # "none"
       THEN LET r == set_property(heap, ref.root, subscribers, its, items[i].name, v) IN
            /\ heap' = r.heap
            /\ items' = its
            /\ last' = Call("item_set_value", items[i].name, v, i, "ok", r.events)
            /\ written' = written \cup {items[i].name}
       ELSE /\ items' = its
            /\ last' = Call("item_set_value", items[i].name, v, i, "ok",
                            <<Ev("store", i, v, Backing), check_change(i, its, Backing)>>)
            /\ UNCHANGED <<heap, written>>
    /\ UNCHANGED <<children, subscribers, file, saved, enum, ref, tp>>

\* a set_value whose parentless branch checks for a change before it stores
ItemSetValue_checkfirst(i, v) ==
    /\ i \in ItemIds
    /\ IF items[i].parent # "none"
       THEN LET r == set_property(heap, ref.root, subscribers, items, items[i].name, v) IN
            /\ heap' = r.heap
            /\ last' = Call("item_set_value", items[i].name, v, i, "ok", r.events)
            /\ written' = written \cup {items[i].name}
            /\ UNCHANGED items
       ELSE LET its == [items EXCEPT ![i].self_storage = v] IN
            /\ items' = its
            /\ last' = Call("item_set_value", items[i].name, v, i, "ok",
                            <<check_change(i, items, Backing), Ev("store", i, v, Backing)>>)
            /\ UNCHANGED <<heap, written>>
    /\ UNCHANGED <<children, subscribers, file, saved, enum, ref, tp>>

\* AbstractProjectItem.set_value(v)
ItemSetValue(i, v) ==
    /\ i \in ItemIds
    /\ IF items[i].parent # "none"
       THEN LET r == set_property(heap, ref.root, subscribers, items, items[i].name, v) IN
            /\ heap' = r.heap
            /\ last' = Call("item_set_value", items[i].name, v, i, "ok", r.events)
            /\ written' = written \cup {items[i].name}
            /\ UNCHANGED items
       ELSE LET its == [items EXCEPT ![i] = self_storage_setter(@, v)] IN
            /\ items' = its
            /\ last' = Call("item_set_value", items[i].name, v, i, "ok",
                            <<Ev("store", i, v, Backing), check_change(i, its, Backing)>>)
            /\ UNCHANGED <<heap, written>>
    /\ UNCHANGED <<children, subscribers, file, saved, enum, ref, tp>>

\* AbstractProjectItem.get_value(), the same method for every item class
\* (String, Int, Float, Dict, List, Enum items): a read, nothing is stored
ItemGetValue(i) ==
    /\ i \in ItemIds
    /\ last' = Call("item_get_value", items[i].name, get_value(items[i], Backing), i, "ok", <<>>)
    /\ UNCHANGED <<heap, children, subscribers, items, file, written, saved, enum, ref, tp>>

\* AbstractProject.get_value(): the caller keeps the dictionary it is given
RootGetValue ==
    /\ ref' = [ref EXCEPT !.held = create_dict(ref.root)]
    /\ last' = Call("get_value", NoName, Dict(Backing), 0, "ok", <<>>)
    /\ UNCHANGED <<heap, children, subscribers, items, file, written, saved, enum, tp>>

\* SaveInterface.save()
Save ==
    /\ file' = save_file(Backing)
    /\ saved' = [valid |-> TRUE, dict |-> value]
    /\ last' = Call("save", NoName, None, 0, "ok", <<>>)
    /\ UNCHANGED <<heap, children, subscribers, items, written, enum, ref, tp>>

\* a load that assigns the parsed dictionary before it checks the sentinel
Load_assign_first(check_key, check_value) ==
    /\ LET c == load_check(file, check_key, check_value) IN
       IF IsDict(c.obj)
       THEN LET a == Fresh(heap)
                r == value_setter(Alloc(heap, c.obj[2]), ref.root, a, subscribers, items) IN
            /\ heap' = Collect(r.heap, {r.root, ref.held})
            /\ ref' = [ref EXCEPT !.root = r.root]
            /\ written' = {}
            /\ last' = [Call("load", check_key, Str(check_value), 0, c.outcome, r.events)
                          EXCEPT !.argref = a]
       ELSE /\ last' = Call("load", check_key, Str(check_value), 0, c.outcome, <<>>)
            /\ UNCHANGED <<heap, written, ref>>
    /\ UNCHANGED <<children, subscribers, items, file, saved, enum, tp>>

\* SaveInterface.load(check_key, check_value): obj is the dict json.load
\* built, a new object
Load(check_key, check_value) ==
    /\ LET c == load_check(file, check_key, check_value) IN
       IF c.outcome = "ok"
       THEN LET a == Fresh(heap)
                r == value_setter(Alloc(heap, c.obj[2]), ref.root, a, subscribers, items) IN
            /\ heap' = Collect(r.heap, {r.root, ref.held})
            /\ ref' = [ref EXCEPT !.root = r.root]
            /\ written' = {}
            /\ last' = [Call("load", check_key, Str(check_value), 0, "ok", r.events)
                          EXCEPT !.argref = a]
       ELSE /\ last' = Call("load", check_key, Str(check_value), 0, c.outcome, <<>>)
            /\ UNCHANGED <<heap, written, ref>>
    /\ UNCHANGED <<children, subscribers, items, file, saved, enum, tp>>

\* texts another program may leave in the target file: an array, a
\* truncated object, an object written by hand
ExternalTexts == { <<LBrack, Tok("number", 1), RBrack>>,
                   <<LBrace, Tok("string", "k"), Colon>>,
                   <<LBrace, Tok("string", "k"), Colon, Tok("string", "w"), RBrace>> }

\* the environment writes the target file
ExternalWrite(t) ==
    /\ file' = [exists |-> TRUE, text |-> t]
    /\ saved' = NoSave
    /\ last' = Call("external_write", NoName, None, 0, "ok", <<>>)
    /\ UNCHANGED <<heap, children, subscribers, items, written, enum, ref, tp>>

\* the program is started again: a new root on the same file
Reopen ==
    /\ heap' = NoHeap
    /\ children' = <<>>
    /\ subscribers' = <<>>
    /\ items' = <<>>
    /\ written' = {}
    /\ last' = InitCall
    /\ ref' = NoRef
    /\ tp' = [NoTime EXCEPT !.now = tp.now]
    /\ enum' = NoEnum
    /\ UNCHANGED <<file, saved>>

\* the document root with its attached items
Next ==
    \/ NewItem("root")
    \/ \E key \in AttrNames, i \in ItemIds : SetAttr(key, i)
    \/ \E name \in AttrNames, v \in Vals : RootSetProperty(name, v)
    \/ \E arg \in ArgDicts : RootSetValue(arg, FALSE)
    \/ RootSetValue(EmptyOD, TRUE)
    \/ \E i \in ItemIds, v \in Vals : ItemSetValue(i, v)

Spec == Init /\ [][Next]_vars

\* the document root, its file, and the items that listen to it
NextFile ==
    \/ Len(items) < MaxListeners /\ NewItem("root")
    \/ \E name \in AttrNames, v \in Vals : RootSetProperty(name, v)
    \/ \E arg \in ArgDicts : RootSetValue(arg, FALSE)
    \/ Save
    \/ \E ck \in CheckKeys, cv \in CheckValues : Load(ck, cv)
    \/ \E t \in ExternalTexts : ExternalWrite(t)
    \/ Reopen

SpecFile == Init /\ [][NextFile]_vars

\* writes of single keys, through the root and through an item, between
\* bulk replaces, saves and loads
NextKeys ==
    \/ Len(items) < MaxListeners /\ NewItem("root")
    \/ \E key \in AttrNames, i \in ItemIds : SetAttr(key, i)
    \/ \E name \in AttrNames : RootSetProperty(name, Str("v"))
    \/ \E i \in ItemIds : ItemSetValue(i, Num(1))
    \/ RootSetValue(Single("k", Str("v")), FALSE)
    \/ Save
    \/ \E ck \in CheckKeys : Load(ck, "v")

SpecKeys == Init /\ [][NextKeys]_vars

\* attached and standalone items side by side, no file traffic; the root
\* binds any item to an attribute, whatever the item's parent, and items are
\* written before or after binding
NextItems ==
    \/ \E p \in {"root", "none"} : NewItem(p)
    \/ \E key \in AttrNames, i \in ItemIds : SetAttr(key, i)
    \/ RootSetProperty("k", Str("v"))
    \/ RootSetValue(EmptyOD, FALSE)
    \/ \E i \in ItemIds, v \in Vals : ItemSetValue(i, v)
    \/ \E i \in ItemIds : ItemGetValue(i)

SpecItems == Init /\ [][NextItems]_vars

\* items whose name and storage slot are also assigned by a caller, through
\* the property setters, besides the items' and the root's own operations
NextSetters ==
    \/ \E p \in {"root", "none"} : NewItem(p)
    \/ \E key \in AttrNames, i \in ItemIds : SetAttr(key, i)
    \/ \E i \in ItemIds, name \in AttrNames : ItemSetName(i, name)
    \/ \E i \in ItemIds, v \in Vals : ItemSetSelfStorage(i, v)
    \/ \E i \in ItemIds, v \in Vals : ItemSetValue(i, v)
    \/ \E i \in ItemIds : ItemGetValue(i)

SpecSetters == Init /\ [][NextSetters]_vars

\* the root alone, with a caller that keeps a reference to its dictionary
NextRefs ==
    \/ RootGetValue
    \/ \E name \in AttrNames, v \in Vals : RootSetProperty(name, v)
    \/ \E arg \in ArgDicts : RootSetValue(arg, FALSE)
    \/ RootSetValue(EmptyOD, TRUE)
    \/ Save
    \/ \E ck \in CheckKeys, cv \in CheckValues : Load(ck, cv)
    \/ Reopen

SpecRefs == Init /\ [][NextRefs]_vars

(* ---------------------------------------------------------------------- *)
(* Writes made by a listener while it is being notified                    *)
(* ---------------------------------------------------------------------- *)
\* a step of a call together with the notification cycle it belongs to:
\* cycle 1 is the caller's write, cycle 2 a write made from inside a listener
EvC(kind, item, payload, d, cycle) ==
    [kind |-> kind, item |-> item, payload |-> payload, dict |-> d.f, cycle |-> cycle]

\* a reaction rx = [item, name, val]: the check_change of rx.item writes
\* rx.val under rx.name through the root unless the key already holds it
Reacts(rx, i, d) == i = rx.item /\ DictGet(d, rx.name) # rx.val

RECURSIVE set_property_re(_, _, _, _, _, _, _), DeliverRe(_, _, _, _, _, _)

\* a set_property that suppresses the emit when it is called from a listener
set_property_re_guarded(d, subs, its, name, v, rx, cycle) ==
    LET d1 == DictUpdate(d, Single(name, v))
        rest == IF cycle > 1 THEN [value |-> d1, events |-> <<>>]
                ELSE DeliverRe(subs, subs, its, d1, rx, cycle)
    IN [value |-> rest.value,
        events |-> <<EvC("update", 0, Dict(Single(name, v)), d1, cycle)>>
                   \o (IF cycle > 1 THEN <<>> ELSE <<EvC("emit", 0, Dict(d1), d1, cycle)>>)
                   \o rest.events]

\* set_property(name, value) when listeners may write: upsert, emit, and the
\* call returns when every listener (and every write it made) has returned
set_property_re(d, subs, its, name, v, rx, cycle) ==
    LET d1 == DictUpdate(d, Single(name, v))
        rest == DeliverRe(subs, subs, its, d1, rx, cycle)
    IN [value |-> rest.value,
        events |-> <<EvC("update", 0, Dict(Single(name, v)), d1, cycle),
                     EvC("emit", 0, Dict(d1), d1, cycle)>> \o rest.events]

\* changed.emit: the listeners todo, in connection order, each called to
\* completion before the next; a listener that reacts calls set_property
DeliverRe(todo, subs, its, d, rx, cycle) ==
    IF todo = <<>> THEN [value |-> d, events |-> <<>>]
    ELSE LET h == Head(todo)
             called == EvC("check_change", h, get_value(its[h], d), d, cycle)
             inner == IF Reacts(rx, h, d)
                      THEN set_property_re(d, subs, its, rx.name, rx.val, rx, cycle + 1)
                      ELSE [value |-> d, events |-> <<>>]
             rest == DeliverRe(Tail(todo), subs, its, inner.value, rx, cycle)
         IN [value |-> rest.value, events |-> <<called>> \o inner.events \o rest.events]

\* root.set_property(name, v) while listener j reacts by writing v2 under n2;
\* every write of the call is an update() of the one dict at ref.root
ReentrantSetProperty(name, v, j, n2, v2) ==
    /\ j \in ItemIds /\ items[j].parent # "none"
    /\ n2 # name
    /\ LET rx == [item |-> j, name |-> n2, val |-> v2]
           r == set_property_re(Backing, subscribers, items, name, v, rx, 1) IN
       /\ heap' = [heap EXCEPT ![ref.root] = r.value]
       /\ last' = Call("set_property_re", name, v, j, "ok", r.events)
       /\ written' = written \cup {name}
                      \cup (IF Reacts(rx, j, DictUpdate(Backing, Single(name, v))) THEN {n2} ELSE {})
    /\ UNCHANGED <<children, subscribers, items, file, saved, enum, ref, tp>>

NextReentrant ==
    \/ NewItem("root")
    \/ \E key \in AttrNames, i \in ItemIds : SetAttr(key, i)
    \/ \E name \in AttrNames, v \in Vals : RootSetProperty(name, v)
    \/ \E name \in AttrNames, v \in Vals, j \in ItemIds, n2 \in AttrNames, v2 \in Vals :
          ReentrantSetProperty(name, v, j, n2, v2)

SpecReentrant == Init /\ [][NextReentrant]_vars

(* ---------------------------------------------------------------------- *)
(* TimePointItem and its TimePointProperty                                 *)
(* ---------------------------------------------------------------------- *)
\* time.strftime(t_format) at clock reading now: a str that depends on both
strftime(fmt, now) == <<"stamp", <<fmt, now>>>>

IsStamp(v) == v[1] = "stamp"

\* StringProperty: reading .value gives the item's string, assigning it
\* hands the text to the item's set_value
StringProperty_get(it, d) == get_value(it, d)
StringProperty_set(i, text) == ItemSetValue(i, text)

\* TimePointProperty.update(): the text that self.value is assigned
TimePointProperty_update(fmt, now) == strftime(fmt, now)

\* TimePointItem.__init__(parent, t_format)
NewTimeItem(parent, fmt) ==
    /\ tp.item = 0
    /\ Len(items) < MaxItems
    /\ LET i == Len(items) + 1 IN
       /\ items' = Append(items, [parent |-> parent, name |-> NoName, self_storage |-> None,
                                 bound |-> NoName])
       /\ children' = IF parent # "none" THEN Append(children, i) ELSE children
       /\ subscribers' = IF parent # "none" THEN Append(subscribers, i) ELSE subscribers
       /\ tp' = [tp EXCEPT !.item = i, !.fmt = fmt]
       /\ last' = Call("new_time_item", NoName, None, i, "ok", <<>>)
    /\ UNCHANGED <<heap, file, written, saved, enum, ref>>

\* the clock moves on
Tick ==
    /\ tp.now < MaxClock
    /\ tp' = [tp EXCEPT !.now = @ + 1]
    /\ last' = Call("tick", NoName, None, 0, "ok", <<>>)
    /\ UNCHANGED <<heap, children, subscribers, items, file, written, saved, enum, ref>>

\* item.time.update(): self.value = time.strftime(self.t_format)
TimeUpdate ==
    /\ tp.item \in ItemIds
    /\ StringProperty_set(tp.item, TimePointProperty_update(tp.fmt, tp.now))

\* item.time.value: the TimePointProperty is built on first access and kept;
\* reading its value computes nothing
TimeRead ==
    /\ tp.item \in ItemIds
    /\ last' = Call("time_read", items[tp.item].name, StringProperty_get(items[tp.item], Backing),
                    tp.item, "ok", <<>>)
    /\ UNCHANGED <<heap, children, subscribers, items, file, written, saved, enum, ref, tp>>

NextTime ==
    \/ \E parent \in {"root", "none"}, fmt \in Formats : NewTimeItem(parent, fmt)
    \/ \E key \in AttrNames, i \in ItemIds : SetAttr(key, i)
    \/ \E name \in AttrNames, v \in Vals : RootSetProperty(name, v)
    \/ Tick
    \/ TimeUpdate
    \/ TimeRead

SpecTime == Init /\ [][NextTime]_vars

(* ---------------------------------------------------------------------- *)
(* EnumItem, its EnumProperty, and Enum.get_key_by_value                   *)
(* ---------------------------------------------------------------------- *)
\* StringItemInterface.get_string(): the item's raw value
get_string(it, d) == get_value(it, d)

\* EnumProperty.get_value(): the lookup is made without a default; when the
\* item was built without an Enum class, self.enum is None and the call fails
EnumProperty_get_value(e, it, d) ==
    IF e.given THEN [outcome |-> "ok", result |-> get_key_by_value(e.def, get_string(it, d), None)]
    ELSE [outcome |-> "AttributeError", result |-> None]

\* EnumItem.__init__(parent, e): the item is constructed as every item is,
\* then self.enum = e; e is an Enum class (given) or left at None
NewEnumItem(parent, given, def) ==
    /\ enum.item = 0
    /\ Len(items) < MaxItems
    /\ LET i == Len(items) + 1 IN
       /\ items' = Append(items, [parent |-> parent, name |-> NoName, self_storage |-> None,
                                 bound |-> NoName])
       /\ children' = IF parent # "none" THEN Append(children, i) ELSE children
       /\ subscribers' = IF parent # "none" THEN Append(subscribers, i) ELSE subscribers
       /\ enum' = [item |-> i, given |-> given, def |-> IF given THEN def ELSE <<>>, result |-> None]
       /\ last' = Call("new_enum_item", NoName, None, i, "ok", <<>>)
    /\ UNCHANGED <<heap, file, written, saved, ref, tp>>

rootVars == <<heap, children, subscribers, items, file, written, saved, ref, tp>>

\* Enum.get_key_by_value(text, default_value) called on the item's class
EnumLookup(text, default_value) ==
    /\ enum.given
    /\ enum' = [enum EXCEPT !.result = get_key_by_value(enum.def, text, default_value)]
    /\ last' = Call("get_key_by_value", NoName, <<text, default_value>>, enum.item, "ok", <<>>)
    /\ UNCHANGED rootVars

\* item.type.get_value()
EnumGet ==
    /\ enum.item \in ItemIds
    /\ LET r == EnumProperty_get_value(enum, items[enum.item], Backing) IN
       /\ enum' = [enum EXCEPT !.result = IF r.outcome = "ok" THEN r.result ELSE @]
       /\ last' = Call("enum_get_value", items[enum.item].name,
                       get_string(items[enum.item], Backing), enum.item, r.outcome, <<>>)
    /\ UNCHANGED rootVars

\* item.type.set_value(member): self.parent.set_value(member.value), whatever
\* class the member belongs to
EnumSet(m) ==
    /\ enum.item \in ItemIds
    /\ ItemSetValue(enum.item, MemberValue(m))

NextEnum ==
    \/ \E parent \in {"root", "none"}, def \in EnumDefs : NewEnumItem(parent, TRUE, def)
    \/ \E parent \in {"root", "none"} : NewEnumItem(parent, FALSE, <<>>)
    \/ \E key \in AttrNames, i \in ItemIds : SetAttr(key, i)
    \/ \E text \in RawTexts, dv \in Defaults : EnumLookup(text, dv)
    \/ EnumGet
    \/ \E m \in Members : EnumSet(m)
    \/ \E i \in ItemIds, text \in RawTexts : ItemSetValue(i, text)
    \/ Reopen

SpecEnum == Init /\ [][NextEnum]_vars

(* ---------------------------------------------------------------------- *)
(* Properties                                                              *)
(* ---------------------------------------------------------------------- *)
Attached(i) == i \in ItemIds /\ items[i].parent # "none"

\* the last call was a write of one key through the root
SingleWrite ==
    \/ last.op = "set_property"
    \/ last.op = "item_set_value" /\ Attached(last.item)

\* the last call was a bulk replace that went through
BulkReplace ==
    \/ last.op \in {"set_value", "set_value_self"}
    \/ last.op = "load" /\ last.outcome = "ok"

EventIdx(kind) == {j \in 1..Len(last.events) : last.events[j].kind = kind}

\* the items whose check_change the last call invoked, in order of invocation
RECURSIVE Notified(_)
Notified(evs) ==
    IF evs = <<>> THEN <<>>
    ELSE (IF Head(evs).kind = "check_change" THEN <<Head(evs).item>> ELSE <<>>) \o Notified(Tail(evs))

\* the attached items among i..Len(items), in order of construction
RECURSIVE AttachedFrom(_)
AttachedFrom(i) ==
    IF i > Len(items) THEN <<>>
    ELSE (IF items[i].parent # "none" THEN <<i>> ELSE <<>>) \o AttachedFrom(i + 1)

\* C1: right after x.set_value(v) on an item x with a parent and name n,
\* parent.get_property(n) and x.get_value() both return v.
C1_DelegationIdentity ==
    (last.op = "item_set_value" /\ Attached(last.item)) =>
        /\ get_property(Backing, items[last.item].name) = last.arg
        /\ get_value(items[last.item], Backing) = last.arg

\* an item bound to "a" overwrote a different earlier entry next to another key
C1_Witness ==
    /\ last.op = "item_set_value" /\ Attached(last.item)
    /\ items[last.item].name = "a"
    /\ "a" \in DOMAIN last.pre /\ last.pre["a"] # last.arg
    /\ value["a"] = last.arg
    /\ Cardinality(DOMAIN value) = 2

\* C2: after root.set_value(d), get_property(k) is d[k] for the keys of d and
\* None for every other key, whatever the dictionary held before.
C2_BulkReplaceIsolates ==
    last.op \in {"set_value", "set_value_self"} =>
        \A k \in Keys \cup DOMAIN last.pre :
            get_property(Backing, k) = IF k \in DOMAIN last.arg[2].f THEN last.arg[2].f[k] ELSE None

\* a key held before the call and missing from d is gone, a key of d is there
C2_Witness ==
    /\ last.op = "set_value"
    /\ \E k \in DOMAIN last.pre : k \notin DOMAIN last.arg[2].f /\ k \notin DOMAIN value
    /\ \E k \in DOMAIN last.arg[2].f : k \notin DOMAIN last.pre /\ value[k] = last.arg[2].f[k]

\* C3: when the dictionary saved by save() holds the sentinel key k with the
\* expected value, a later load(k, expected) of that file succeeds and leaves
\* the backing dictionary equal to the dictionary as it was at save().
C3_SaveLoadRoundTrip ==
    (/\ last.op = "load"
     /\ saved.valid
     /\ last.name \in DOMAIN saved.dict
     /\ saved.dict[last.name] = last.arg) =>
        /\ last.outcome = "ok"
        /\ value = saved.dict

\* a saved dictionary with a nested list was loaded over a different one
C3_Witness ==
    /\ last.op = "load" /\ last.outcome = "ok" /\ saved.valid
    /\ value = saved.dict
    /\ last.pre # saved.dict
    /\ \E k \in DOMAIN value : value[k][1] = "list"

\* C4: load fails with FileNotFoundError when the file is missing, with
\* AssertionError when the content is not a dictionary, lacks the sentinel key
\* or holds another value under it, and succeeds only when the file exists,
\* parses to a dictionary and parsed[key] equals the expected value.
C4_LoadValidation ==
    last.op = "load" =>
        LET p == JsonLoad(file.text)
            isObj == file.exists /\ p.ok /\ IsDict(p.val)
        IN /\ ~file.exists => last.outcome = "FileNotFoundError"
           /\ (file.exists /\ p.ok /\ ~IsDict(p.val)) => last.outcome = "AssertionError"
           /\ (isObj /\ last.name \notin DOMAIN p.val[2].f) => last.outcome = "AssertionError"
           /\ (isObj /\ last.name \in DOMAIN p.val[2].f /\ p.val[2].f[last.name] # last.arg)
                  => last.outcome = "AssertionError"
           /\ last.outcome = "ok" <=>
                  (isObj /\ last.name \in DOMAIN p.val[2].f /\ p.val[2].f[last.name] = last.arg)

\* a load refused a dictionary that lacks the sentinel key
C4_Witness ==
    /\ last.op = "load" /\ last.outcome = "AssertionError"
    /\ file.exists /\ JsonLoad(file.text).ok /\ IsDict(JsonLoad(file.text).val)
    /\ last.name \notin DOMAIN JsonLoad(file.text).val[2].f
    /\ DOMAIN JsonLoad(file.text).val[2].f # {}

\* C5: one set_property invokes check_change of every attached item exactly
\* once, in the order the items were attached, within the call.
C5_NotificationFanOut ==
    SingleWrite =>
        /\ Notified(last.events) = AttachedFrom(1)
        /\ Notified(last.events) = children

\* two attached items were notified by one root.set_property
C5_Witness ==
    /\ last.op = "set_property"
    /\ Len(children) = 2
    /\ Notified(last.events) = <<1, 2>>

\* C6: every set_property, also one that rewrites the value a key already
\* holds, emits exactly once, after the upsert, and the payload is the whole
\* backing dictionary: the new value under name, every other key unchanged.
C6_SetPropertyEmitsWholeDict ==
    SingleWrite =>
        /\ Cardinality(EventIdx("emit")) = 1
        /\ Cardinality(EventIdx("update")) = 1
        /\ \A e \in EventIdx("emit") :
              /\ \A u \in EventIdx("update") : u < e
              /\ last.events[e].dict = value
              /\ last.events[e].payload = Dict(Backing)
        /\ value = [k \in DOMAIN last.pre \cup {last.name} |->
                       IF k = last.name THEN last.arg ELSE last.pre[k]]

\* a rewrite of the value already held, with another key present, was emitted
C6_Witness ==
    /\ last.op = "set_property"
    /\ last.pre = value
    /\ Cardinality(DOMAIN value) = 2
    /\ Cardinality(EventIdx("emit")) = 1
    /\ Len(subscribers) > 0

\* C7: a successful load and every root.set_value(d) emit exactly once, only
\* after the dictionary was cleared and repopulated; no listener runs while
\* the dictionary is in the cleared state, and the payload is the new dictionary.
C7_BulkReplaceEmitsOnceAfter ==
    BulkReplace =>
        /\ Cardinality(EventIdx("emit")) = 1
        /\ \A e \in EventIdx("emit") \cup EventIdx("check_change") :
              /\ \A u \in EventIdx("clear") \cup EventIdx("update") : u < e
              /\ last.events[e].dict = value
        /\ \A e \in EventIdx("emit") : last.events[e].payload = Dict(Backing)
        /\ last.op = "set_value" => value = last.arg[2].f /\ order = last.arg[2].ks
        /\ last.op = "load" => Dict(Backing) = JsonLoad(file.text).val

\* a load replaced a non-empty dictionary by a different non-empty one while
\* a listener was connected
C7_Witness ==
    /\ last.op = "load" /\ last.outcome = "ok"
    /\ last.pre # EmptyDict /\ value # EmptyDict /\ last.pre # value
    /\ Len(subscribers) > 0
    /\ Cardinality(EventIdx("check_change")) = Len(subscribers)

\* C8: every key written through set_property since the most recent bulk
\* replace is still a key of the backing dictionary.
C8_KeyRetention == written \subseteq DOMAIN value

\* both keys were written, one through an item, and a load then failed
C8_Witness ==
    /\ written = {"k", "a"}
    /\ last.op = "load" /\ last.outcome = "AssertionError"
    /\ Len(items) > 0

\* C9: in every reachable state an item with a parent has never written its
\* own slot (self_storage is still its initial None) and its get_value is the
\* parent's entry under the item's name (None when the key is absent); only
\* items without a parent hold a value in self_storage.
C9_StorageLocation ==
    \A i \in ItemIds :
        /\ items[i].parent # "none" =>
              /\ items[i].self_storage = None
              /\ get_value(items[i], Backing) = IF items[i].name \in DOMAIN value
                                              THEN value[items[i].name] ELSE None
        /\ items[i].self_storage # None => items[i].parent = "none"

\* an attached item wrote a value, which is in the parent's dictionary and
\* not in the item's slot, while a standalone item holds one in its slot
C9_Witness ==
    /\ last.op = "item_set_value" /\ Attached(last.item)
    /\ last.name # NoName /\ value[last.name] = last.arg
    /\ items[last.item].self_storage = None
    /\ \E j \in ItemIds : items[j].parent = "none" /\ items[j].self_storage \notin {None, last.arg}

\* the first member in definition order whose associated string is text
FirstWith(def, text) ==
    LET hits == {j \in 1..Len(def) : Str(def[j][2]) = text}
    IN Member(def[CHOOSE j \in hits : \A h \in hits : j <= h][1])

Known(def, text) == \E j \in 1..Len(def) : Str(def[j][2]) = text

\* C10: a lookup of a string that no member of the enum is associated with
\* returns the default (None for EnumProperty.get_value, which passes none)
\* and does not raise; a lookup of a member's string returns the first member
\* defined with that string.
C10_EnumFallback ==
    /\ last.op = "get_key_by_value" =>
          /\ last.outcome = "ok"
          /\ enum.result = IF Known(enum.def, last.arg[1]) THEN FirstWith(enum.def, last.arg[1])
                           ELSE last.arg[2]
    /\ (last.op = "enum_get_value" /\ enum.given) =>
          /\ last.outcome = "ok"
          /\ enum.result = IF Known(enum.def, last.arg) THEN FirstWith(enum.def, last.arg)
                           ELSE None

\* the property of an item attached to the root read a raw string that no
\* member of its class, which has an alias, is associated with
C10_Witness ==
    /\ last.op = "enum_get_value" /\ enum.given
    /\ Attached(enum.item)
    /\ last.arg = Str("z") /\ value[items[enum.item].name] = Str("z")
    /\ enum.result = None
    /\ Len(enum.def) = 3


\* C11: the first get_value() of a Dict/List item whose slot is absent
\* materialises an empty container, stores it in the slot, and later reads
\* return that same container.  (The claim as stated.)
C11_LazyMaterialisation ==
    (/\ last.op = "item_get_value"
     /\ Attached(last.item)
     /\ last.name # NoName
     /\ last.name \notin DOMAIN last.pre) =>
        /\ last.arg \in {Dict(EmptyOD), List(<<>>)}
        /\ last.name \in DOMAIN value
        /\ value[last.name] = last.arg


\* C12: binding an item as attribute a sets its name to a before the
\* assignment completes; the name is the attribute of the most recent
\* assignment, and every later read or write through the item addresses key a.
C12_NameBinding ==
    /\ \A i \in ItemIds : items[i].bound # NoName => items[i].name = items[i].bound
    /\ last.op = "setattr" =>
          /\ items[last.item].name = last.name
          /\ \A n \in EventIdx("set_name"), b \in EventIdx("bind") : n < b
          /\ Cardinality(EventIdx("set_name")) = 1
    /\ (last.op = "item_set_value" /\ Attached(last.item) /\ items[last.item].bound # NoName) =>
          /\ last.name = items[last.item].bound
          /\ \A u \in EventIdx("update") :
                last.events[u].payload = Dict(Single(items[last.item].bound, last.arg))
    /\ (last.op = "item_get_value" /\ Attached(last.item) /\ items[last.item].bound # NoName) =>
          last.arg = DictGet(Backing, items[last.item].bound)

\* an item that was attribute k, and wrote under k, was assigned as attribute
\* a and is now named a
C12_Witness ==
    /\ last.op = "setattr" /\ Attached(last.item)
    /\ last.arg = Str("k") /\ last.name = "a"
    /\ items[last.item].name = "a"
    /\ "k" \in DOMAIN value /\ "a" \notin DOMAIN value
    /\ Len(items) = 1


\* C13: get_value or set_value on an item with a parent, before the item was
\* bound to a name, fails with an error and neither reads nor writes any key
\* of the parent's backing dictionary.  (The claim as stated.)
C13_UseBeforeNaming ==
    (/\ last.op \in {"item_get_value", "item_set_value"}
     /\ Attached(last.item)
     /\ items[last.item].name = NoName) =>
        /\ last.outcome # "ok"
        /\ value = last.pre


\* the position of listener i in the connection order
PosOf(i) == CHOOSE p \in 1..Len(subscribers) : subscribers[p] = i

\* the steps of the last call that belong to cycle c
CycleIdx(c) == {j \in 1..Len(last.events) : last.events[j].cycle = c}

\* the listeners called in cycle c of the last call, in order of the calls
RECURSIVE NotifiedIn(_, _)
NotifiedIn(evs, c) ==
    IF evs = <<>> THEN <<>>
    ELSE (IF Head(evs).kind = "check_change" /\ Head(evs).cycle = c THEN <<Head(evs).item>> ELSE <<>>)
         \o NotifiedIn(Tail(evs), c)

\* C14: when a listener, while notified of write W1, makes a write W2 to a
\* different property, the whole cycle of W2 (every subscriber, in order) runs
\* before any subscriber that follows the listener in W1's cycle, and the
\* remaining subscribers of W1 are still called exactly once each afterwards.
C14_DepthFirstReentrancy ==
    (last.op = "set_property_re" /\ CycleIdx(2) # {}) =>
        /\ NotifiedIn(last.events, 1) = subscribers
        /\ NotifiedIn(last.events, 2) = subscribers
        /\ \A e1 \in CycleIdx(1), e2 \in CycleIdx(2) :
              last.events[e1].kind = "check_change" =>
                  (e1 < e2 <=> PosOf(last.events[e1].item) <= PosOf(last.item))
        /\ \A u \in CycleIdx(2) : last.events[u].kind = "update" =>
              last.name \notin DOMAIN last.events[u].payload[2].f
        /\ \A e \in CycleIdx(1) :
              (last.events[e].kind = "check_change"
               /\ PosOf(last.events[e].item) > PosOf(last.item)) => last.events[e].dict = value

\* the first of several listeners wrote another key while it was notified
C14_Witness ==
    /\ last.op = "set_property_re"
    /\ Len(subscribers) >= 2
    /\ last.item = subscribers[1]
    /\ CycleIdx(2) # {}
    /\ NotifiedIn(last.events, 2) = subscribers
    /\ Cardinality(DOMAIN value) = 2


\* C15: set_value(v) on an item without a parent stores v in the item's own
\* slot, then calls the item's check_change exactly once; get_value() then
\* returns v, and no project's dictionary, children or channel is touched.
C15_StandaloneItem ==
    (last.op = "item_set_value" /\ last.item \in ItemIds /\ items[last.item].parent = "none") =>
        /\ items[last.item].self_storage = last.arg
        /\ get_value(items[last.item], Backing) = last.arg
        /\ Len(last.events) = 2
        /\ last.events[1].kind = "store" /\ last.events[1].item = last.item
        /\ last.events[2].kind = "check_change" /\ last.events[2].item = last.item
        /\ last.events[2].payload = last.arg
        /\ value = last.pre
        /\ children = AttachedFrom(1)
        /\ subscribers = AttachedFrom(1)

\* a standalone item replaced its value while the root holds the same key
\* with another value and has an attached item
C15_Witness ==
    /\ last.op = "item_set_value" /\ last.item \in ItemIds
    /\ items[last.item].parent = "none"
    /\ items[last.item].self_storage = Num(1)
    /\ "k" \in DOMAIN value /\ value["k"] = Str("v")
    /\ Len(children) = 1


\* what the last bulk replace was given: the contents of the dict passed to
\* set_value as the call read them, or the dict parsed from the file
Given == IF last.op = "load" THEN JsonLoad(file.text).val ELSE last.arg

\* C16: the backing dictionary is one and the same object across every
\* set_property, set_value and successful load; a reference obtained from
\* root.get_value() before the operation shows the new contents afterwards;
\* and a dictionary passed to set_value or parsed by load does not become the
\* backing dictionary: it is the backing dictionary afterwards only when the
\* caller passed the backing dictionary itself.
C16_StableIdentity ==
    /\ ref.root = last.root
    /\ ref.held # 0 =>
          /\ ref.held \in DOMAIN heap
          /\ SingleWrite => DictGet(heap[ref.held], last.name) = last.arg
          /\ BulkReplace => Dict(heap[ref.held]) = Given
    /\ BulkReplace => (last.argref = ref.root => last.argref = last.root)

\* a reference taken before a load shows the loaded, different contents, and
\* the dict that json.load built is another object
C16_Witness ==
    /\ ref.held # 0
    /\ last.op = "load" /\ last.outcome = "ok"
    /\ last.pre # EmptyDict
    /\ heap[ref.held].f # last.pre /\ heap[ref.held].f # EmptyDict
    /\ Dict(heap[ref.held]) = JsonLoad(file.text).val
    /\ last.argref \notin {0, ref.root}


\* C17: every read of a timestamp item's time value recomputes the current
\* time in the configured format and stores it under the item's name in the
\* parent's dictionary (one change notification) before it returns, so the
\* value returned equals the value stored.  (The claim as stated.)
C17_ReadStampsTime ==
    (last.op = "time_read" /\ Attached(last.item)) =>
        /\ Cardinality(EventIdx("emit")) = 1
        /\ DictGet(Backing, last.name) = strftime(tp.fmt, tp.now)
        /\ last.arg = DictGet(Backing, last.name)


\* C18: a load that fails (file missing, content no dictionary, sentinel key
\* missing or of another value) leaves the backing dictionary exactly as it
\* was before the call and emits no change notification.
C18_FailedLoadAtomic ==
    (last.op = "load" /\ last.outcome # "ok") =>
        /\ value = last.pre
        /\ last.events = <<>>
        /\ ref.root = last.root

\* a load was refused for its sentinel although the file held a dictionary
\* other than the one in memory, which had entries and a listener
C18_Witness ==
    /\ last.op = "load" /\ last.outcome = "AssertionError"
    /\ file.exists /\ JsonLoad(file.text).ok /\ IsDict(JsonLoad(file.text).val)
    /\ JsonLoad(file.text).val[2].f # value
    /\ last.pre # EmptyDict
    /\ subscribers # <<>>


\* C19: root.set_value(root.get_value()), a bulk set of the root with the very
\* dictionary it returns, leaves the keys and values of the backing
\* dictionary exactly as they were before the call.  (The claim as stated.)
C19_WriteBackKeepsContents ==
    last.op = "set_value_self" => value = last.pre


\* C20: a write through an item bound to name n (x.set_value(v), or
\* parent.set_property(n, v)) changes only the entry for n of the parent's
\* backing dictionary: every other key keeps its value, get_value of every
\* sibling item of another name returns what it returned before, and the
\* parent's children list is unchanged.
C20_SingleKeyFrame ==
    [][SingleWrite' =>
          /\ DOMAIN value' = DOMAIN value \cup {last'.name}
          /\ \A k \in DOMAIN value : k # last'.name => value'[k] = value[k]
          /\ \A j \in ItemIds :
                (Attached(j) /\ items[j].name # last'.name)
                    => get_value(items'[j], OD(value', order')) = get_value(items[j], Backing)
          /\ children' = children]_vars

\* an item wrote under its name while a sibling of another name held a
\* different value in the same dictionary
C20_Witness ==
    /\ last.op = "item_set_value" /\ Attached(last.item)
    /\ \E j \in ItemIds :
          /\ j # last.item /\ Attached(j)
          /\ items[j].name \notin {NoName, last.name}
          /\ items[j].name \in DOMAIN last.pre
          /\ last.pre[items[j].name] # last.arg
          /\ get_value(items[j], Backing) = last.pre[items[j].name]
    /\ Len(children) = MaxItems

====
